---- MODULE Spec2Model ----
(***************************************************************************)
(* Model of ai-security-ml.py: the two-headed classifier AISecurityModel,  *)
(* SecurityPredictor.predict, train_model and the POST /analyze handler.   *)
(*                                                                         *)
(* Numbers are fixed-point integers: a probability p is held as the        *)
(* integer p * Scale, a logit as an integer number of logit units.         *)
(***************************************************************************)
EXTENDS Integers, Sequences, FiniteSets, TLC

VARIABLES
    n_texts,          \* predict: number of strings in the text argument
    threat_logits,    \* predict: threat head output, one row per string
    severity_logits,  \* predict: severity head output, one row per string
    prediction,       \* predict: the returned dict, or the raised error
    dpc,              \* predict: position inside the decoding part
    models,           \* heap of AISecurityModel objects
    predictors,       \* heap of SecurityPredictor objects
    req,              \* POST /analyze: the requests and their locals
    used_by,          \* per predictor, the requests that touched it
    tr,               \* train_model: locals and position of the call
    train_loader,     \* train_model: the batches argument
    num_epochs,       \* train_model: the epochs argument
    memo              \* per text, what predict last returned for it

decodeVars == <<n_texts, threat_logits, severity_logits, prediction, dpc>>
heapVars == <<models, predictors>>
serveVars == <<req, used_by>>
trainVars == <<tr, train_loader, num_epochs, memo>>

vars == <<n_texts, threat_logits, severity_logits, prediction, dpc, models,
          predictors, req, used_by, tr, train_loader, num_epochs, memo>>

----------------------------------------------------------------------------
(* Bounds of the model *)

Scale == 1000       \* fixed-point denominator of probabilities
MaxLogit == 2       \* logits of the decoding specification range over 0..MaxLogit
MaxTexts == 2       \* longest list of strings handed to predict
NumRequests == 2    \* concurrent POST /analyze requests
MaxBatches == 2     \* longest train_loader
MaxEpochs == 2      \* largest num_epochs

(* Program constants *)

NumClasses == 4     \* out_features of both heads

\* a table of the three attack labels only
attack_types_short == <<"data_poisoning", "prompt_injection", "model_inversion">>

attack_types == <<"normal", "data_poisoning", "prompt_injection", "model_inversion">>
severity_levels == <<"low", "medium", "high", "critical">>

----------------------------------------------------------------------------
(* Tensor helpers *)

Classes == 1..NumClasses

RECURSIVE SumTo(_, _)
SumTo(f, n) == IF n = 0 THEN 0 ELSE f[n] + SumTo(f, n - 1)

MaxOfSet(S) == CHOOSE x \in S : \A y \in S : y <= x

RowMax(row) == MaxOfSet({row[i] : i \in Classes})

\* exp(-d) in fixed point, d >= 0 logit units: exp(-1) = 0.368
RECURSIVE ExpNeg(_)
ExpNeg(d) == IF d = 0 THEN Scale ELSE (ExpNeg(d - 1) * 368) \div 1000

\* torch.softmax(logits, dim=1): every row is normalised on its own
SoftmaxRow(row) ==
    LET mx == RowMax(row)
        e == [i \in Classes |-> ExpNeg(mx - row[i])]
        s == SumTo(e, NumClasses)
    IN  [i \in Classes |-> (e[i] * Scale) \div s]

Softmax(logits) == [b \in 1..Len(logits) |-> SoftmaxRow(logits[b])]

\* Tensor.max(): the largest element of the whole tensor
TensorMax(t) == MaxOfSet({t[b][i] : b \in 1..Len(t), i \in Classes})

\* element of the row-major flattened tensor at 0-based position n
FlatAt(t, n) == t[(n \div NumClasses) + 1][(n % NumClasses) + 1]

\* position of the last maximal element instead of the first
ArgMaxLast(t) ==
    LET N == Len(t) * NumClasses
        m == TensorMax(t)
    IN  CHOOSE n \in 0..(N - 1) :
            /\ FlatAt(t, n) = m
            /\ \A k \in (n + 1)..(N - 1) : FlatAt(t, k) # m

\* Tensor.argmax() without dim: 0-based position of the first maximal
\* element of the flattened tensor
ArgMax(t) ==
    LET N == Len(t) * NumClasses
        m == TensorMax(t)
    IN  CHOOSE n \in 0..(N - 1) :
            /\ FlatAt(t, n) = m
            /\ \A k \in 0..(n - 1) : FlatAt(t, k) # m

----------------------------------------------------------------------------
(* SecurityPredictor.predict, lines 40-48: from the two logit tensors to   *)
(* the returned dict.  A list index past the end of a label table raises   *)
(* IndexError before the dict is built.                                    *)

NoPrediction ==
    [status |-> "none", threat_type |-> "", severity |-> "", confidence |-> 0]

IndexError ==
    [status |-> "IndexError", threat_type |-> "", severity |-> "", confidence |-> 0]

\* confidence taken from the severity distribution
DecodeSeverityConfidence(tl, sl) ==
    LET threat_probs == Softmax(tl)
        severity_probs == Softmax(sl)
        ti == ArgMax(threat_probs)
        si == ArgMax(severity_probs)
    IN  IF ti >= Len(attack_types) \/ si >= Len(severity_levels)
        THEN IndexError
        ELSE [status |-> "ok",
              threat_type |-> attack_types[ti + 1],
              severity |-> severity_levels[si + 1],
              confidence |-> TensorMax(severity_probs)]

\* both labels looked up with the threat index
DecodeOneIndex(tl, sl) ==
    LET threat_probs == Softmax(tl)
        ti == ArgMax(threat_probs)
    IN  IF ti >= Len(attack_types)
        THEN IndexError
        ELSE [status |-> "ok",
              threat_type |-> attack_types[ti + 1],
              severity |-> severity_levels[ti + 1],
              confidence |-> TensorMax(threat_probs)]

\* lines 40-48 with the label tables of the predictor
DecodeWith(types, levels, tl, sl) ==
    LET threat_probs == Softmax(tl)
        severity_probs == Softmax(sl)
        ti == ArgMax(threat_probs)
        si == ArgMax(severity_probs)
    IN  IF ti >= Len(types) \/ si >= Len(levels)
        THEN IndexError
        ELSE [status |-> "ok",
              threat_type |-> types[ti + 1],
              severity |-> levels[si + 1],
              confidence |-> TensorMax(threat_probs)]

Decode(tl, sl) == DecodeWith(attack_types, severity_levels, tl, sl)

----------------------------------------------------------------------------
(* AISecurityModel, lines 9-27.  The 256 shared features are scaled down   *)
(* to the units of Units; the pretrained encoder is a fixed table from     *)
(* token ids to the pooled output.                                         *)

Units == {1, 2}

Texts == {"hello", "DROP TABLE users; --"}

\* self.tokenizer(text, return_tensors='pt', padding=True, truncation=True)
\* for one string: one row of token ids between [CLS] and [SEP], all attended
Vocab(text) == IF text = "hello" THEN <<7592>> ELSE <<4530, 2795, 5198>>

Tokenize(text) ==
    LET ids == <<101>> \o Vocab(text) \o <<102>>
    IN  [input_ids |-> ids, attention_mask |-> [k \in 1..Len(ids) |-> 1]]

\* self.bert(...).pooler_output
PoolerOutput(input_ids) ==
    IF Len(input_ids) = 3 THEN [j \in Units |-> IF j = 1 THEN 2 ELSE -1]
                          ELSE [j \in Units |-> IF j = 1 THEN 1 ELSE 3]

\* nn.Linear weights as the library initialises them at random: two draws
InitDrawA ==
    [b1 |-> <<0, 0>>,
     wt |-> << <<1, -1>>, <<0, 1>>, <<-1, 0>>, <<0, 0>> >>,
     ws |-> << <<0, 0>>, <<1, 0>>, <<0, 1>>, <<-1, 1>> >>]

InitDrawB ==
    [b1 |-> <<1, 0>>,
     wt |-> << <<0, 0>>, <<-1, 1>>, <<1, 0>>, <<1, -1>> >>,
     ws |-> << <<0, 1>>, <<0, 0>>, <<1, -1>>, <<-1, 0>> >>]

InitParams == {InitDrawA, InitDrawB}

ZeroGrad ==
    [b1 |-> [j \in Units |-> 0],
     wt |-> [i \in Classes |-> [j \in Units |-> 0]],
     ws |-> [i \in Classes |-> [j \in Units |-> 0]]]

\* AISecurityModel(), lines 10-19: nn.Module.__init__ leaves the module and
\* its children in training mode; no gradient has been computed yet
NewModel(init) == [params |-> init, grad |-> ZeroGrad, training |-> TRUE]

\* the dropout masks a forward pass can draw: the set of units kept
Masks(training) == IF training THEN SUBSET Units ELSE {Units}

\* nn.Dropout(0.3): in training mode a unit is zeroed or scaled by 1/(1-0.3);
\* in evaluation mode the layer is the identity
Dropout(h, keep, training) ==
    IF training THEN (IF keep THEN (h * 10) \div 7 ELSE 0) ELSE h

Relu(x) == IF x > 0 THEN x ELSE 0

\* nn.Linear(256, 4) applied to the shared features
Linear(w, f) == [i \in Classes |-> SumTo([j \in Units |-> w[i][j] * f[j]], 2)]

\* forward, lines 21-27, for one input row
forward(model, input_ids, attention_mask, mask) ==
    LET pooled_output == PoolerOutput(input_ids)
        pre == [j \in Units |-> pooled_output[j] + model.params.b1[j]]
        features == [j \in Units |->
                        Dropout(Relu(pre[j]), j \in mask, model.training)]
    IN  [threat_logits |-> <<Linear(model.params.wt, features)>>,
         severity_logits |-> <<Linear(model.params.ws, features)>>,
         features |-> features,
         gate |-> [j \in Units |->
                      IF pre[j] > 0 THEN Dropout(7, j \in mask, model.training)
                                    ELSE 0]]

----------------------------------------------------------------------------
(* SecurityPredictor, lines 29-48 *)

\* __init__, lines 30-34, the model being object number m of the heap
NewPredictor(m) ==
    [tokenizer |-> "bert-base-uncased",
     model |-> m,
     attack_types |-> attack_types,
     severity_levels |-> severity_levels]

\* predict, lines 36-48, on predictor self with the dropout draw mask
predict(self, text, mask) ==
    LET inputs == Tokenize(text)
        out == forward(models[self.model], inputs.input_ids,
                       inputs.attention_mask, mask)
    IN  DecodeWith(self.attack_types, self.severity_levels,
                   out.threat_logits, out.severity_logits)

\* every dict predict can return for a text on a model
Predictions(self, text) ==
    {predict(self, text, mask) : mask \in Masks(models[self.model].training)}

----------------------------------------------------------------------------
(* POST /analyze, lines 68-71 *)

Requests == 1..NumRequests

IdleRequest ==
    [pc |-> "idle", text |-> "", predictor |-> 0, response |-> NoPrediction,
     dropout |-> FALSE]

\* a predictor kept at module level and handed to every request
AnalyzeConstructShared(r) ==
    /\ req[r].pc = "idle"
    /\ \E text \in Texts, init \in InitParams :
          IF predictors = <<>>
          THEN /\ models' = Append(models, NewModel(init))
               /\ predictors' = Append(predictors, NewPredictor(1))
               /\ used_by' = Append(used_by, {r})
               /\ req' = [req EXCEPT ![r].pc = "constructed", ![r].text = text,
                                     ![r].predictor = 1]
          ELSE /\ used_by' = [used_by EXCEPT ![1] = @ \cup {r}]
               /\ req' = [req EXCEPT ![r].pc = "constructed", ![r].text = text,
                                     ![r].predictor = 1]
               /\ UNCHANGED heapVars
    /\ UNCHANGED <<decodeVars, trainVars>>

\* line 70: the request arrives with its text and builds its predictor
AnalyzeConstruct(r) ==
    /\ req[r].pc = "idle"
    /\ \E text \in Texts, init \in InitParams :
          LET m == Len(models) + 1
              p == Len(predictors) + 1
          IN  /\ models' = Append(models, NewModel(init))
              /\ predictors' = Append(predictors, NewPredictor(m))
              /\ used_by' = Append(used_by, {r})
              /\ req' = [req EXCEPT ![r].pc = "constructed", ![r].text = text,
                                    ![r].predictor = p]
    /\ UNCHANGED <<decodeVars, trainVars>>

\* line 71: predict on the request's predictor, and the response
AnalyzePredict(r) ==
    /\ req[r].pc = "constructed"
    /\ LET p == req[r].predictor
           self == predictors[p]
       IN  /\ \E mask \in Masks(models[self.model].training) :
                 req' = [req EXCEPT
                            ![r].pc = "done",
                            ![r].response = predict(self, req[r].text, mask),
                            ![r].dropout = models[self.model].training]
           /\ used_by' = [used_by EXCEPT ![p] = @ \cup {r}]
    /\ UNCHANGED <<decodeVars, heapVars, trainVars>>

IdleTrain ==
    [pc |-> "not_called", epoch |-> 0, batch |-> 0, steps |-> 0,
     out |-> <<>>, loss |-> <<>>, ops |-> <<>>, error |-> ""]

NoMemo == [t \in Texts |-> NoPrediction]

ServeInit ==
    /\ n_texts = 0
    /\ threat_logits = <<>>
    /\ severity_logits = <<>>
    /\ prediction = NoPrediction
    /\ dpc = "unused"
    /\ models = <<>>
    /\ predictors = <<>>
    /\ req = [r \in Requests |-> IdleRequest]
    /\ used_by = <<>>
    /\ tr = IdleTrain
    /\ train_loader = <<>>
    /\ num_epochs = 0
    /\ memo = NoMemo

ServeNext == \E r \in Requests : AnalyzeConstruct(r) \/ AnalyzePredict(r)

SpecServe == ServeInit /\ [][ServeNext]_vars

----------------------------------------------------------------------------
(* train_model, lines 50-62, on the model of a predictor built by a        *)
(* script (with the second draw of the initial weights); the script calls  *)
(* predict before the call and after it ends.                              *)

\* batches of one sample; labels are class indices from 0; the third batch
\* has no severity_labels key
BatchPool ==
    { [input_ids |-> Tokenize("hello").input_ids,
       attention_mask |-> Tokenize("hello").attention_mask,
       threat_labels |-> 0, severity_labels |-> 0],
      [input_ids |-> Tokenize("DROP TABLE users; --").input_ids,
       attention_mask |-> Tokenize("DROP TABLE users; --").attention_mask,
       threat_labels |-> 1, severity_labels |-> 3],
      [input_ids |-> Tokenize("DROP TABLE users; --").input_ids,
       attention_mask |-> Tokenize("DROP TABLE users; --").attention_mask,
       threat_labels |-> 1] }

Loaders == UNION {[1..n -> BatchPool] : n \in 0..MaxBatches}

TrainModel == 1

Sign(x) == IF x > 0 THEN 1 ELSE IF x < 0 THEN -1 ELSE 0

\* d CrossEntropyLoss / d logits for one row: softmax minus the one-hot label
CrossEntropyGrad(logits, label) ==
    LET probs == SoftmaxRow(logits[1])
    IN  [i \in Classes |-> probs[i] - (IF i = label + 1 THEN Scale ELSE 0)]

\* the loss of lines 59-60 with a missing severity_labels key skipped
LossSkipMissing(out, batch) ==
    IF "threat_labels" \notin DOMAIN batch
    THEN [error |-> "KeyError"]
    ELSE IF "severity_labels" \notin DOMAIN batch
    THEN [error |-> "",
          terms |-> <<"threat">>,
          d_threat |-> CrossEntropyGrad(out.threat_logits, batch.threat_labels),
          d_severity |-> [i \in Classes |-> 0]]
    ELSE [error |-> "",
          terms |-> <<"threat", "severity">>,
          d_threat |-> CrossEntropyGrad(out.threat_logits, batch.threat_labels),
          d_severity |->
              CrossEntropyGrad(out.severity_logits, batch.severity_labels)]

\* lines 59-60: the threat term is evaluated first, then the severity term;
\* a missing key raises KeyError
Loss(out, batch) ==
    IF "threat_labels" \notin DOMAIN batch
    THEN [error |-> "KeyError"]
    ELSE IF "severity_labels" \notin DOMAIN batch
    THEN [error |-> "KeyError"]
    ELSE [error |-> "",
          terms |-> <<"threat", "severity">>,
          d_threat |-> CrossEntropyGrad(out.threat_logits, batch.threat_labels),
          d_severity |->
              CrossEntropyGrad(out.severity_logits, batch.severity_labels)]

\* gradient of the loss of one batch with respect to the parameters
BatchGrad(params, out, loss) ==
    [wt |-> [i \in Classes |-> [j \in Units |-> loss.d_threat[i] * out.features[j]]],
     ws |-> [i \in Classes |-> [j \in Units |-> loss.d_severity[i] * out.features[j]]],
     b1 |-> [j \in Units |->
               (SumTo([i \in Classes |->
                         loss.d_threat[i] * params.wt[i][j]
                         + loss.d_severity[i] * params.ws[i][j]], NumClasses)
                * out.gate[j]) \div 7]]

\* loss.backward(), line 61: the gradient is added to what is accumulated
Backward(model, out, loss) ==
    LET g == BatchGrad(model.params, out, loss)
    IN  [model EXCEPT
            !.grad = [b1 |-> [j \in Units |-> model.grad.b1[j] + g.b1[j]],
                      wt |-> [i \in Classes |-> [j \in Units |->
                                model.grad.wt[i][j] + g.wt[i][j]]],
                      ws |-> [i \in Classes |-> [j \in Units |->
                                model.grad.ws[i][j] + g.ws[i][j]]]]]

\* gradients left as they are
KeepGrad(model) == model

\* optimizer.zero_grad(), line 57
zero_grad(model) == [model EXCEPT !.grad = ZeroGrad]

\* optimizer.step(), line 62: AdamW moves every parameter one step of size
\* lr against the sign of its gradient
step(model) ==
    [model EXCEPT
        !.params = [b1 |-> [j \in Units |->
                              model.params.b1[j] - Sign(model.grad.b1[j])],
                    wt |-> [i \in Classes |-> [j \in Units |->
                              model.params.wt[i][j] - Sign(model.grad.wt[i][j])]],
                    ws |-> [i \in Classes |-> [j \in Units |->
                              model.params.ws[i][j] - Sign(model.grad.ws[i][j])]]]]

TrainInit ==
    /\ n_texts = 0
    /\ threat_logits = <<>>
    /\ severity_logits = <<>>
    /\ prediction = NoPrediction
    /\ dpc = "unused"
    /\ models = <<NewModel(InitDrawB)>>
    /\ predictors = <<NewPredictor(TrainModel)>>
    /\ req = [r \in Requests |-> IdleRequest]
    /\ used_by = <<{}>>
    /\ tr = IdleTrain
    /\ train_loader = <<>>
    /\ num_epochs = 0
    /\ memo = NoMemo

TrainIdle == tr.pc \in {"not_called", "returned", "raised"}

\* predict that also takes a gradient step on its own output
PredictAdapts(text) ==
    /\ TrainIdle
    /\ \E mask \in Masks(models[TrainModel].training) :
          LET self == predictors[1]
              inputs == Tokenize(text)
              out == forward(models[self.model], inputs.input_ids,
                             inputs.attention_mask, mask)
              loss == Loss(out, [threat_labels |-> 0, severity_labels |-> 0])
          IN  /\ memo' = [memo EXCEPT ![text] = predict(self, text, mask)]
              /\ models' = [models EXCEPT
                               ![self.model] = Backward(@, out, loss)]
    /\ UNCHANGED <<decodeVars, predictors, serveVars, tr, train_loader, num_epochs>>

\* the script calls predictor.predict(text), lines 36-48
Predict(text) ==
    /\ TrainIdle
    /\ \E mask \in Masks(models[TrainModel].training) :
          memo' = [memo EXCEPT ![text] = predict(predictors[1], text, mask)]
    /\ UNCHANGED <<decodeVars, heapVars, serveVars, tr, train_loader, num_epochs>>

\* lines 50-52: the call, with its arguments, and the optimizer
TrainCall ==
    /\ tr.pc = "not_called"
    /\ train_loader' \in Loaders
    /\ num_epochs' \in 0..MaxEpochs
    /\ tr' = [tr EXCEPT !.pc = "for_epoch"]
    /\ UNCHANGED <<decodeVars, heapVars, serveVars, memo>>

\* lines 54-55: next epoch and model.train(), or the end of the call
ForEpoch ==
    /\ tr.pc = "for_epoch"
    /\ IF tr.epoch < num_epochs
       THEN /\ models' = [models EXCEPT ![TrainModel].training = TRUE]
            /\ tr' = [tr EXCEPT !.pc = "for_batch", !.batch = 0]
       ELSE /\ tr' = [tr EXCEPT !.pc = "returned"]
            /\ UNCHANGED models
    /\ UNCHANGED <<decodeVars, predictors, serveVars, train_loader, num_epochs, memo>>

\* line 56: next batch of the loader, or the end of the epoch
ForBatch ==
    /\ tr.pc = "for_batch"
    /\ IF tr.batch < Len(train_loader)
       THEN tr' = [tr EXCEPT !.pc = "zero_grad", !.batch = @ + 1, !.ops = <<>>]
       ELSE tr' = [tr EXCEPT !.pc = "for_epoch", !.epoch = @ + 1]
    /\ UNCHANGED <<decodeVars, heapVars, serveVars, train_loader, num_epochs, memo>>

\* line 57
TrainZeroGrad ==
    /\ tr.pc = "zero_grad"
    /\ models' = [models EXCEPT ![TrainModel] = zero_grad(@)]
    /\ tr' = [tr EXCEPT !.pc = "forward", !.ops = Append(@, "zero_grad")]
    /\ UNCHANGED <<decodeVars, predictors, serveVars, train_loader, num_epochs, memo>>

\* line 58
TrainForward ==
    /\ tr.pc = "forward"
    /\ \E mask \in Masks(models[TrainModel].training) :
          LET batch == train_loader[tr.batch]
          IN  tr' = [tr EXCEPT
                        !.pc = "loss",
                        !.out = forward(models[TrainModel], batch.input_ids,
                                        batch.attention_mask, mask),
                        !.ops = Append(@, "forward")]
    /\ UNCHANGED <<decodeVars, heapVars, serveVars, train_loader, num_epochs, memo>>

\* lines 59-60
TrainLoss ==
    /\ tr.pc = "loss"
    /\ LET loss == Loss(tr.out, train_loader[tr.batch])
       IN  IF loss.error # ""
           THEN tr' = [tr EXCEPT !.pc = "raised", !.error = loss.error]
           ELSE tr' = [tr EXCEPT !.pc = "backward", !.loss = loss,
                                 !.ops = Append(@, "loss")]
    /\ UNCHANGED <<decodeVars, heapVars, serveVars, train_loader, num_epochs, memo>>

\* line 61
TrainBackward ==
    /\ tr.pc = "backward"
    /\ models' = [models EXCEPT ![TrainModel] = Backward(@, tr.out, tr.loss)]
    /\ tr' = [tr EXCEPT !.pc = "step", !.ops = Append(@, "backward")]
    /\ UNCHANGED <<decodeVars, predictors, serveVars, train_loader, num_epochs, memo>>

\* line 62
TrainStep ==
    /\ tr.pc = "step"
    /\ models' = [models EXCEPT ![TrainModel] = step(@)]
    /\ tr' = [tr EXCEPT !.pc = "for_batch", !.steps = @ + 1,
                        !.out = <<>>, !.loss = <<>>,
                        !.ops = Append(@, "step")]
    /\ memo' = IF models'[TrainModel].params = models[TrainModel].params
               THEN memo ELSE NoMemo
    /\ UNCHANGED <<decodeVars, predictors, serveVars, train_loader, num_epochs>>

TrainNext ==
    \/ \E text \in Texts : Predict(text)
    \/ TrainCall
    \/ ForEpoch
    \/ ForBatch
    \/ TrainZeroGrad
    \/ TrainForward
    \/ TrainLoss
    \/ TrainBackward
    \/ TrainStep

SpecTrain == TrainInit /\ [][TrainNext]_vars

----------------------------------------------------------------------------
(* Specification of the decoding part of predict: the forward pass has     *)
(* returned some pair of logit tensors, one row per input string.          *)

LogitVals == 0..MaxLogit

Rows == [Classes -> LogitVals]

\* rows used for list inputs of two or more strings: flat, or peaked at one class
PeakedRows ==
    {[i \in Classes |-> 0]} \cup
    {[i \in Classes |-> IF i = c THEN MaxLogit ELSE 0] : c \in Classes}

LogitTensors(k) ==
    IF k = 1 THEN {<<r>> : r \in Rows} ELSE [1..k -> PeakedRows]

DecodeInit ==
    /\ n_texts \in 1..MaxTexts
    /\ threat_logits \in LogitTensors(n_texts)
    /\ severity_logits \in LogitTensors(n_texts)
    /\ prediction = NoPrediction
    /\ dpc = "forward_done"
    /\ models = <<>>
    /\ predictors = <<>>
    /\ req = [r \in Requests |-> IdleRequest]
    /\ used_by = <<>>
    /\ tr = IdleTrain
    /\ train_loader = <<>>
    /\ num_epochs = 0
    /\ memo = NoMemo

\* lines 40-48
PredictDecode ==
    /\ dpc = "forward_done"
    /\ prediction' = Decode(threat_logits, severity_logits)
    /\ dpc' = "returned"
    /\ UNCHANGED <<n_texts, threat_logits, severity_logits>>
    /\ UNCHANGED <<heapVars, serveVars, trainVars>>

\* the same call again with another severity head output for one class of
\* one row, the threat head output being the same
PredictDecodeOtherSeverity ==
    /\ dpc = "returned"
    /\ \E b \in 1..n_texts, i \in Classes, v \in LogitVals :
          /\ v # severity_logits[b][i]
          /\ n_texts > 1 =>
                [severity_logits[b] EXCEPT ![i] = v] \in PeakedRows
          /\ severity_logits' = [severity_logits EXCEPT ![b][i] = v]
    /\ prediction' = Decode(threat_logits, severity_logits')
    /\ UNCHANGED <<n_texts, threat_logits, dpc>>
    /\ UNCHANGED <<heapVars, serveVars, trainVars>>

DecodeNext == PredictDecode \/ PredictDecodeOtherSeverity

SpecDecode == DecodeInit /\ [][DecodeNext]_vars

----------------------------------------------------------------------------
(* Properties of the decoding part *)

ThreatLabels == {"normal", "data_poisoning", "prompt_injection", "model_inversion"}
SeverityLabels == {"low", "medium", "high", "critical"}

\* 1-based position of the first largest entry of a row of logits
LargestAt(row) ==
    CHOOSE i \in Classes :
        /\ \A j \in Classes : row[j] <= row[i]
        /\ \A j \in 1..(i - 1) : row[j] < row[i]

\* 1-based position of a label in a label table
PositionOf(table, label) == CHOOSE i \in 1..Len(table) : table[i] = label

\* C1: for a single text, predict returns a threat_type among the four
\* attack labels and a severity among the four severity labels, whatever
\* the two logit vectors are.
C1_LabelsInRange ==
    (dpc = "returned" /\ n_texts = 1) =>
        /\ prediction.status = "ok"
        /\ prediction.threat_type \in ThreatLabels
        /\ prediction.severity \in SeverityLabels

C1_Witness ==
    /\ dpc = "returned"
    /\ n_texts = 1
    /\ prediction.threat_type = "model_inversion"
    /\ prediction.severity = "low"

C4_ConfidenceState ==
    (dpc = "returned" /\ prediction.status = "ok") =>
        /\ prediction.confidence \in 0..Scale
        /\ \A i \in Classes :
              SoftmaxRow(threat_logits[1])[i] <= prediction.confidence
        /\ prediction.confidence =
              SoftmaxRow(threat_logits[1])
                  [PositionOf(attack_types, prediction.threat_type)]

C4_ConfidenceStep ==
    (/\ dpc = "returned"
     /\ dpc' = "returned"
     /\ threat_logits' = threat_logits
     /\ prediction.status = "ok"
     /\ prediction'.status = "ok")
        => prediction'.confidence = prediction.confidence

\* C4: the confidence is the largest threat probability, that of the returned
\* threat_type, lies in [0,1] and does not depend on the severity logits.
C4_ConfidenceIsThreatMax == [](C4_ConfidenceState) /\ [][C4_ConfidenceStep]_vars

C4_Witness ==
    /\ dpc = "returned"
    /\ n_texts = 1
    /\ prediction.status = "ok"
    /\ prediction.confidence > 0
    /\ prediction.confidence < Scale
    /\ TensorMax(Softmax(severity_logits)) # prediction.confidence

\* C9 as stated: for a single string or a list of k >= 1 strings the two
\* lookup indices are in 0..3, the lookup never fails and the labels are
\* those of one input sample.
C9_Original ==
    dpc = "returned" =>
        /\ ArgMax(Softmax(threat_logits)) \in 0..3
        /\ ArgMax(Softmax(severity_logits)) \in 0..3
        /\ prediction.status = "ok"
        /\ \E b \in 1..n_texts :
              /\ prediction.threat_type = attack_types[LargestAt(threat_logits[b])]
              /\ prediction.severity = severity_levels[LargestAt(severity_logits[b])]

\* C9 amended: for a single string or a list of one string the two lookup
\* indices are in 0..3, the lookup never fails and the labels are those of
\* that sample; for a list of k >= 2 strings the indices are in 0..4k-1,
\* the lookup raises IndexError when one of them is above 3, and otherwise
\* the labels are those of the first sample.
C9_IndicesInRange ==
    dpc = "returned" =>
        LET ti == ArgMax(Softmax(threat_logits))
            si == ArgMax(Softmax(severity_logits))
        IN  /\ ti \in 0..(NumClasses * n_texts - 1)
            /\ si \in 0..(NumClasses * n_texts - 1)
            /\ n_texts = 1 => (ti \in 0..3 /\ si \in 0..3)
            /\ (ti > 3 \/ si > 3) <=> prediction.status = "IndexError"
            /\ (ti <= 3 /\ si <= 3) =>
                  /\ prediction.status = "ok"
                  /\ prediction.threat_type =
                        attack_types[LargestAt(threat_logits[1])]
                  /\ prediction.severity =
                        severity_levels[LargestAt(severity_logits[1])]

C9_Witness ==
    /\ dpc = "returned"
    /\ n_texts = 1
    /\ prediction.status = "ok"
    /\ ArgMax(Softmax(threat_logits)) = 3
    /\ ArgMax(Softmax(severity_logits)) = 0

----------------------------------------------------------------------------
(* Properties of the endpoint and of training *)

WellFormed(batch) ==
    "threat_labels" \in DOMAIN batch /\ "severity_labels" \in DOMAIN batch

\* C2: every forward pass run by predict has dropout disabled, the model
\* being in evaluation mode whenever predict invokes it.
C2_PredictInEvalMode ==
    \A r \in Requests : req[r].pc = "done" => req[r].dropout = FALSE

\* C5: a batch without severity_labels makes train_model raise on that
\* batch: no backward pass and no optimizer step is run for it, and no
\* later batch or epoch is processed.
C5_MissingSeverityLabelsAborts ==
    /\ tr.pc \in {"backward", "step"} =>
          "severity_labels" \in DOMAIN train_loader[tr.batch]
    /\ tr.pc = "raised" =>
          /\ tr.error = "KeyError"
          /\ "severity_labels" \notin DOMAIN train_loader[tr.batch]
          /\ tr.ops = <<"zero_grad", "forward">>
          /\ tr.steps = tr.batch - 1
    /\ \A k \in 1..Len(train_loader) :
          "severity_labels" \notin DOMAIN train_loader[k] =>
              /\ tr.epoch = 0
              /\ tr.batch <= k
              /\ tr.steps < k
              /\ num_epochs > 0 => tr.pc # "returned"

C5_Witness ==
    /\ tr.pc = "raised"
    /\ tr.batch = 2
    /\ tr.steps = 1
    /\ num_epochs = 2
    /\ "severity_labels" \notin DOMAIN train_loader[2]

C7_Step ==
    /\ models'[TrainModel].params # models[TrainModel].params =>
          (tr.pc = "step" /\ tr'.steps = tr.steps + 1)
    /\ models'[TrainModel].grad # models[TrainModel].grad =>
          tr.pc \in {"zero_grad", "backward"}
    /\ predictors'[1].attack_types = predictors[1].attack_types
    /\ predictors'[1].severity_levels = predictors[1].severity_levels
    /\ (memo' # memo /\ tr' = tr) =>
          /\ models'[TrainModel].params = models[TrainModel].params
          /\ models'[TrainModel].grad = models[TrainModel].grad

\* C7: every step keeps to C7_Step: only train_model changes parameters and
\* gradients, and predict changes neither them nor the label tables.
C7_OnlyTrainingChangesParameters == [][C7_Step]_vars

C7_Witness ==
    /\ tr.pc = "returned"
    /\ tr.steps >= 1
    /\ models[TrainModel].params \notin InitParams
    /\ models[TrainModel].grad # ZeroGrad
    /\ \A t \in Texts : memo[t].status = "ok"

C10_Step ==
    \A t \in Texts :
        (memo[t].status # "none" /\ memo'[t].status # "none") => memo'[t] = memo[t]

\* C10: every step keeps to C10_Step: predict on the same predictor and text
\* returns the same dict again.
C10_PredictDeterministic == [][C10_Step]_vars

====
